---- MODULE Spec2Model ----
(***************************************************************************)
(* RingLink identity: device address derivation, Ed25519 sign / verify,    *)
(* and the textual (hex / base64) record codec of Identity and             *)
(* PublicIdentity.                                                         *)
(*                                                                         *)
(* Bytes are the integers 0..255, byte strings are sequences of bytes and  *)
(* text is a sequence of ASCII codes.  A Rust Result is a record tagged    *)
(* "Ok" or "Err"; a panic is a record tagged "Panic".                      *)
(***************************************************************************)
EXTENDS Integers, Sequences, FiniteSets, TLC

\* ---------------------------------------------------------------- bounds
\* DeviceID::LENGTH, the N of declare_id!(DeviceID, N)
LENGTH == 2
\* bytes of a raw Ed25519 key, private or public (32 in the scheme, scaled
\* down here); a signature is twice that
KeyLen == 2
\* bytes of one digest of the address hash (64 for BLAKE2b-512, scaled down
\* here; never less than LENGTH)
DigestLen == 4
\* longest message signed or verified
MaxMsgLen == 1

\* ------------------------------------------------------------- constants
NID_BLAKE2B512 == 1056
REHASH_ROUNDS == 31

\* ---------------------------------------------------------------- results
Ok(v) == [tag |-> "Ok", val |-> v]
Err(e) == [tag |-> "Err", err |-> e]
Panic(m) == [tag |-> "Panic", msg |-> m]
IsOk(r) == r.tag = "Ok"
IsErr(r) == r.tag = "Err"
IsPanic(r) == r.tag = "Panic"

\* -------------------------------------------------------------------- hex
\* hex::encode: two lowercase digits per byte
HexDigit(n) == IF n < 10 THEN 48 + n ELSE 87 + n

hex_encode(bytes) ==
    [i \in 1..(2 * Len(bytes)) |->
        LET b == bytes[(i + 1) \div 2]
        IN  IF i % 2 = 1 THEN HexDigit(b \div 16) ELSE HexDigit(b % 16)]

\* text with its lower-case letters in upper case
ToUpper(c) == IF c >= 97 /\ c <= 122 THEN c - 32 ELSE c
Upper(text) == [i \in 1..Len(text) |-> ToUpper(text[i])]

\* hex's val(): the value of one digit, either case; -1 for any other char
HexVal(c) ==
    IF c >= 48 /\ c <= 57 THEN c - 48
    ELSE IF c >= 97 /\ c <= 102 THEN c - 87
    ELSE IF c >= 65 /\ c <= 70 THEN c - 55
    ELSE -1

\* hex::decode_to_slice(s, out) with out of n bytes
hex_decode_to_slice(s, n) ==
    IF Len(s) % 2 # 0 THEN Err("OddLength")
    ELSE IF Len(s) \div 2 # n THEN Err("InvalidStringLength")
    ELSE IF \E i \in 1..Len(s) : HexVal(s[i]) = -1 THEN Err("InvalidHexCharacter")
    ELSE Ok([i \in 1..n |-> HexVal(s[2 * i - 1]) * 16 + HexVal(s[2 * i])])

\* ----------------------------------------------------------------- base64
\* the standard alphabet: A-Z a-z 0-9 + /
B64Char(v) ==
    IF v < 26 THEN 65 + v
    ELSE IF v < 52 THEN 97 + (v - 26)
    ELSE IF v < 62 THEN 48 + (v - 52)
    ELSE IF v = 62 THEN 43
    ELSE 47

B64Val(c) ==
    IF c >= 65 /\ c <= 90 THEN c - 65
    ELSE IF c >= 97 /\ c <= 122 THEN c - 97 + 26
    ELSE IF c >= 48 /\ c <= 57 THEN c - 48 + 52
    ELSE IF c = 43 THEN 62
    ELSE IF c = 47 THEN 63
    ELSE -1

B64Pad == 61

\* the integer whose base-256 digits are bytes[from..to], big-endian
RECURSIVE BytesToInt(_, _, _)
BytesToInt(bytes, from, to) ==
    IF to < from THEN 0
    ELSE BytesToInt(bytes, from, to - 1) * 256 + bytes[to]

\* the k-th (1-based, most significant first) of n base-64 digits of v
B64DigitOf(v, k, n) == (v \div (64 ^ (n - k))) % 64

\* STANDARD.encode: 3 bytes to 4 chars, the tail padded with '='
STANDARD_encode(bytes) ==
    LET full == Len(bytes) \div 3
        rem  == Len(bytes) % 3
        group(g) == BytesToInt(bytes, 3 * g - 2, 3 * g)
        head == [i \in 1..(4 * full) |->
                    B64Char(B64DigitOf(group((i + 3) \div 4), ((i - 1) % 4) + 1, 4))]
        last == BytesToInt(bytes, 3 * full + 1, Len(bytes))
        tail == IF rem = 0 THEN << >>
                ELSE IF rem = 1
                     THEN << B64Char(B64DigitOf(last * 16, 1, 2)),
                             B64Char(B64DigitOf(last * 16, 2, 2)), B64Pad, B64Pad >>
                     ELSE << B64Char(B64DigitOf(last * 4, 1, 3)),
                             B64Char(B64DigitOf(last * 4, 2, 3)),
                             B64Char(B64DigitOf(last * 4, 3, 3)), B64Pad >>
    IN  head \o tail

\* number of trailing '=' of s
RECURSIVE TrailingPad(_)
TrailingPad(s) ==
    IF Len(s) = 0 \/ s[Len(s)] # B64Pad THEN 0
    ELSE 1 + TrailingPad(SubSeq(s, 1, Len(s) - 1))

RECURSIVE B64ToInt(_, _, _)
B64ToInt(s, from, to) ==
    IF to < from THEN 0
    ELSE B64ToInt(s, from, to - 1) * 64 + B64Val(s[to])

\* the k-th (1-based, most significant first) of n bytes of v
ByteOf(v, k, n) == (v \div (256 ^ (n - k))) % 256

\* STANDARD.decode: canonical padding required, no trailing bits allowed
STANDARD_decode(s) ==
    LET pad  == TrailingPad(s)
        body == SubSeq(s, 1, Len(s) - pad)
        full == Len(body) \div 4
        rem  == Len(body) % 4
        group(g) == B64ToInt(body, 4 * g - 3, 4 * g)
        head == [i \in 1..(3 * full) |->
                    ByteOf(group((i + 2) \div 3), ((i - 1) % 3) + 1, 3)]
        last == B64ToInt(body, 4 * full + 1, Len(body))
    IN  IF \E i \in 1..Len(body) : B64Val(body[i]) = -1 THEN Err("InvalidByte")
        ELSE IF rem = 1 THEN Err("InvalidLength")
        ELSE IF pad # (4 - rem) % 4 THEN Err("InvalidPadding")
        ELSE IF rem = 2 /\ last % 16 # 0 THEN Err("InvalidLastSymbol")
        ELSE IF rem = 3 /\ last % 4 # 0 THEN Err("InvalidLastSymbol")
        ELSE IF rem = 2 THEN Ok(head \o << last \div 16 >>)
        ELSE IF rem = 3 THEN Ok(head \o << ByteOf(last \div 4, 1, 2), ByteOf(last \div 4, 2, 2) >>)
        ELSE Ok(head)

\* ------------------------------------------------------------------ state
VARIABLES
    provider,   \* the OpenSSL build: which digest lookup / short-signature outcome it has
    ident,      \* an Identity held by the caller (I), or NoValue
    pub,        \* a PublicIdentity held by the caller (P), or NoValue
    last        \* the last operation: its name, inputs and result

vars == << provider, ident, pub, last >>

NoValue == [none |-> TRUE]

\* --------------------------------------------------------------- provider
\* how MessageDigest::from_nid / openssl::hash::hash behave in this build
DigestModes == {"available", "unknown_nid", "fetch_fails"}
\* what EVP_DigestVerify returns for a signature of the wrong length
ShortSigModes == {"false", "error"}

Providers == [digest : DigestModes, shortSig : ShortSigModes]

\* MessageDigest::from_nid(nid): None when the build does not know the nid
MessageDigest_from_nid(nid) ==
    IF provider.digest = "unknown_nid" THEN [some |-> FALSE, nid |-> nid]
    ELSE [some |-> TRUE, nid |-> nid]

RECURSIVE Absorb(_, _)
Absorb(data, n) ==
    IF n = 0 THEN 40503
    ELSE (Absorb(data, n - 1) * 131 + data[n] + 1) % 65521

\* the digest function: a fixed pseudo-random map to DigestLen bytes
Digest(data) ==
    LET a == Absorb(data, Len(data))
        out == [i \in 1..DigestLen |-> ((a \div (i + 1)) + a * (2 * i + 1) + i * i) % 256]
    IN  SubSeq(out, 1, DigestLen)

\* openssl::hash::hash(md, data)
openssl_hash(md, data) ==
    IF provider.digest = "fetch_fails" THEN Err("Openssl") ELSE Ok(Digest(data))

\* ------------------------------------------------------------------- keys
\* the public key of a raw private key: an injective map on KeyLen bytes
PublicOf(raw_private) ==
    [i \in 1..Len(raw_private) |->
        (raw_private[Len(raw_private) + 1 - i] * 7 + 3 * i) % 256]

\* PKey::private_key_from_raw_bytes(raw, Id::ED25519)
private_key_from_raw_bytes(raw) ==
    IF Len(raw) # KeyLen THEN Err("Openssl")
    ELSE Ok([kind |-> "Private", raw_private |-> raw, raw_public |-> PublicOf(raw)])

\* PKey::public_key_from_raw_bytes(raw, Id::ED25519)
public_key_from_raw_bytes(raw) ==
    IF Len(raw) # KeyLen THEN Err("Openssl")
    ELSE Ok([kind |-> "Public", raw_private |-> << >>, raw_public |-> raw])

\* the seeds PKey::generate_ed25519 may draw
Seeds == {1, 200}

SeedKey(seed) == [i \in 1..KeyLen |-> (seed + 53 * i) % 256]

\* PKey::generate_ed25519() with the randomness fixed to `seed`
generate_ed25519(seed) == private_key_from_raw_bytes(SeedKey(seed))

raw_public_key(pkey) == pkey.raw_public
raw_private_key(pkey) == pkey.raw_private

\* ------------------------------------------------------------- signatures
SigLen == 2 * KeyLen

RECURSIVE MsgNumber(_, _)
MsgNumber(data, n) ==
    IF n = 0 THEN 0 ELSE MsgNumber(data, n - 1) * 257 + data[n] + 1

\* the one signature the scheme accepts for (public key, message): R || S
Ed25519Signature(raw_public, data) ==
    LET m == MsgNumber(data, Len(data))
    IN  [i \in 1..SigLen |->
            IF i <= KeyLen THEN (ByteOf(m, i, KeyLen) * 5 + 1) % 256
            ELSE (raw_public[i - KeyLen] * 3 + 7) % 256]

\* Signer::new_without_digest(key) + sign_oneshot_to_vec(data)
sign_oneshot_to_vec(pkey, data) ==
    IF pkey.kind # "Private" THEN Err("Openssl")
    ELSE Ok(Ed25519Signature(PublicOf(pkey.raw_private), data))

\* Verifier::new_without_digest(key) + verify_oneshot(signature, data):
\* EVP_DigestVerify's 1 is Ok(true), its 0 Ok(false), anything else an error
verify_oneshot(pkey, signature, data) ==
    IF Len(signature) # SigLen
    THEN IF provider.shortSig = "error" THEN Err("Openssl") ELSE Ok(FALSE)
    ELSE Ok(signature = Ed25519Signature(raw_public_key(pkey), data))

\* ------------------------------------------------------------- lib.rs
\* DeviceID::from_bytes
from_bytes(inner) == inner

RECURSIVE Rehash(_, _, _)
\* the body of `for _ in 0..31 { first = hash(md, &first)? }`
Rehash(md, first, rounds) ==
    IF rounds = 0 THEN Ok(first)
    ELSE LET next == openssl_hash(md, first)
         IN  IF IsErr(next) THEN next ELSE Rehash(md, next.val, rounds - 1)

\* a faulty variant: the loop one round short
compute_address_round_short(public_key) ==
    LET md == MessageDigest_from_nid(NID_BLAKE2B512)
    IN  IF ~md.some THEN Panic("no message digest")
        ELSE LET first == openssl_hash(md, public_key)
             IN  IF IsErr(first) THEN first
                 ELSE LET final == Rehash(md, first.val, REHASH_ROUNDS - 1)
                      IN  IF IsErr(final) THEN final
                          ELSE IF Len(final.val) < LENGTH THEN Panic("range end index")
                          ELSE Ok(from_bytes(SubSeq(final.val, 1, LENGTH)))

compute_address(public_key) ==
    LET md == MessageDigest_from_nid(NID_BLAKE2B512)
    IN  IF ~md.some THEN Panic("no message digest")
        ELSE LET first == openssl_hash(md, public_key)
             IN  IF IsErr(first) THEN first
                 ELSE LET final == Rehash(md, first.val, REHASH_ROUNDS)
                      IN  IF IsErr(final) THEN final
                          ELSE IF Len(final.val) < LENGTH THEN Panic("range end index")
                          ELSE Ok(from_bytes(SubSeq(final.val, 1, LENGTH)))

\* a faulty variant: the arguments of verify_oneshot in the wrong order
verify_swapped(key, data, signature) == verify_oneshot(key, data, signature)

\* the free function verify(key, data, signature)
verify(key, data, signature) == verify_oneshot(key, signature, data)

\* a faulty variant: the address taken of the private key
Identity_generate_private_address(seed) ==
    LET sign == generate_ed25519(seed)
    IN  IF IsErr(sign) THEN sign
        ELSE LET id == compute_address(raw_private_key(sign.val))
             IN  IF ~IsOk(id) THEN id
                 ELSE Ok([id |-> id.val,
                          raw_sign |-> raw_private_key(sign.val),
                          pkey |-> sign.val])

\* Identity::generate with the key generator's randomness fixed to `seed`
Identity_generate(seed) ==
    LET sign == generate_ed25519(seed)
    IN  IF IsErr(sign) THEN sign
        ELSE LET pk == raw_public_key(sign.val)
                 id == compute_address(pk)
             IN  IF ~IsOk(id) THEN id
                 ELSE Ok([id |-> id.val,
                          raw_sign |-> raw_private_key(sign.val),
                          pkey |-> sign.val])

Identity_sign(self, data) == sign_oneshot_to_vec(self.pkey, data)

Identity_verify(self, data, signature) == verify(self.pkey, data, signature)

PublicIdentity_new_with_id(id, sign) ==
    LET pkey == public_key_from_raw_bytes(sign)
    IN  IF IsErr(pkey) THEN pkey
        ELSE Ok([id |-> id, raw_sign |-> sign, pkey |-> pkey.val])

\* a faulty variant: the cached private bytes given as the public key
Identity_public_identity_raw_sign(self) ==
    PublicIdentity_new_with_id(self.id, self.raw_sign)

Identity_public_identity(self) ==
    PublicIdentity_new_with_id(self.id, raw_public_key(self.pkey))

PublicIdentity_new(sign) ==
    LET id == compute_address(sign)
    IN  IF ~IsOk(id) THEN id ELSE PublicIdentity_new_with_id(id.val, sign)

\* a faulty variant: a signature of the wrong length answered false before the provider is asked
PublicIdentity_verify_lenient(self, data, signature) ==
    IF Len(signature) # SigLen THEN Ok(FALSE) ELSE verify(self.pkey, data, signature)

PublicIdentity_verify(self, data, signature) == verify(self.pkey, data, signature)

Identity_id(self) == self.id
Identity_private_key(self) == self.raw_sign
PublicIdentity_id(self) == self.id
PublicIdentity_public_key(self) == self.raw_sign

\* PartialEq for Identity and for PublicIdentity: by id and raw key bytes
Identity_eq(a, b) == a.id = b.id /\ a.raw_sign = b.raw_sign
PublicIdentity_eq(a, b) == a.id = b.id /\ a.raw_sign = b.raw_sign

\* ------------------------------------------------------------- utils.rs
\* FromStr for DeviceID
DeviceID_from_str(s) == hex_decode_to_slice(s, LENGTH)

\* TryFrom<&[u8]> for DeviceID
DeviceID_try_from(value) ==
    IF Len(value) # LENGTH THEN Err("InvalidLength") ELSE Ok(value)

\* Display for DeviceID
DeviceID_to_string(id) == hex_encode(id)

\* Serialize for DeviceID: hex::serialize
DeviceID_serialize(id) == hex_encode(id)

\* Deserialize for DeviceID: hex::deserialize, the decode error as a custom error
DeviceID_deserialize(s) ==
    LET r == hex_decode_to_slice(s, LENGTH)
    IN  IF IsErr(r) THEN Err([kind |-> "custom", what |-> r.err])
        ELSE Ok(from_bytes(r.val))

\* --------------------------------------------------------------- ser.rs
\* a faulty variant: `sign` written from the public key, as Debug prints it
Identity_serialize_public_key(self) ==
    [id |-> hex_encode(self.id), sign |-> STANDARD_encode(raw_public_key(self.pkey))]

\* Serialize for Identity: the fields `id` and `sign` of the record
Identity_serialize(self) ==
    [id |-> hex_encode(self.id), sign |-> STANDARD_encode(self.raw_sign)]

\* a faulty variant: the base64 of `sign` decoded before `id` is parsed
Identity_deserialize_sign_first(plain) ==
    LET raw_sign == STANDARD_decode(plain.sign)
    IN  IF IsErr(raw_sign)
        THEN Err([kind |-> "invalid_value", what |-> "base64 encoded"])
        ELSE LET id == DeviceID_from_str(plain.id)
             IN  IF IsErr(id)
                 THEN Err([kind |-> "invalid_value", what |-> "device id"])
                 ELSE LET pkey == private_key_from_raw_bytes(raw_sign.val)
                      IN  IF IsErr(pkey)
                          THEN Err([kind |-> "custom", what |-> pkey.err])
                          ELSE Ok([id |-> id.val, raw_sign |-> raw_sign.val,
                                   pkey |-> pkey.val])

\* Deserialize for Identity
Identity_deserialize(plain) ==
    LET id == DeviceID_from_str(plain.id)
    IN  IF IsErr(id)
        THEN Err([kind |-> "invalid_value", what |-> "device id"])
        ELSE LET raw_sign == STANDARD_decode(plain.sign)
             IN  IF IsErr(raw_sign)
                 THEN Err([kind |-> "invalid_value", what |-> "base64 encoded"])
                 ELSE LET pkey == private_key_from_raw_bytes(raw_sign.val)
                      IN  IF IsErr(pkey)
                          THEN Err([kind |-> "custom", what |-> pkey.err])
                          ELSE Ok([id |-> id.val, raw_sign |-> raw_sign.val,
                                   pkey |-> pkey.val])

\* a faulty variant: the id written in upper-case hex
PublicIdentity_serialize_upper_case(self) ==
    [id |-> Upper(DeviceID_serialize(self.id)), sign |-> STANDARD_encode(self.raw_sign)]

\* Serialize for PublicIdentity
PublicIdentity_serialize(self) ==
    [id |-> DeviceID_serialize(self.id), sign |-> STANDARD_encode(self.raw_sign)]

\* a faulty variant: the id derived again from the imported key
PublicIdentity_deserialize_rederive(plain) ==
    LET id == DeviceID_deserialize(plain.id)
    IN  IF IsErr(id) THEN id
        ELSE LET raw_sign == STANDARD_decode(plain.sign)
             IN  IF IsErr(raw_sign)
                 THEN Err([kind |-> "invalid_value", what |-> "base64 encoded"])
                 ELSE LET pkey == public_key_from_raw_bytes(raw_sign.val)
                      IN  IF IsErr(pkey)
                          THEN Err([kind |-> "custom", what |-> pkey.err])
                          ELSE PublicIdentity_new(raw_sign.val)

\* Deserialize for PublicIdentity
PublicIdentity_deserialize(plain) ==
    LET id == DeviceID_deserialize(plain.id)
    IN  IF IsErr(id) THEN id
        ELSE LET raw_sign == STANDARD_decode(plain.sign)
             IN  IF IsErr(raw_sign)
                 THEN Err([kind |-> "invalid_value", what |-> "base64 encoded"])
                 ELSE LET pkey == public_key_from_raw_bytes(raw_sign.val)
                      IN  IF IsErr(pkey)
                          THEN Err([kind |-> "custom", what |-> pkey.err])
                          ELSE Ok([id |-> id.val, raw_sign |-> raw_sign.val,
                                   pkey |-> pkey.val])

\* ----------------------------------------------------------------- inputs
\* the bytes messages are made of
MsgBytes == {0, 171}

RECURSIVE SeqsUpTo(_, _)
\* every sequence over S of length at most n
SeqsUpTo(S, n) ==
    IF n = 0 THEN {<< >>}
    ELSE LET shorter == SeqsUpTo(S, n - 1)
         IN  shorter \cup {Append(q, x) : q \in {r \in shorter : Len(r) = n - 1}, x \in S}

\* the `data` of sign and verify
Messages == SeqsUpTo(MsgBytes, MaxMsgLen)

\* one byte of a signature changed: every bit of it flipped
FlipByte(sig, i) == [sig EXCEPT ![i] = 255 - sig[i]]

\* the `signature` arguments tried against the key `pkey` and the message `data`:
\* that key's signature over any message, every generated key's over `data`,
\* each single-byte flip of the right one, and byte strings of other lengths
Signatures(pkey, data) ==
    LET right == Ed25519Signature(raw_public_key(pkey), data)
    IN  {Ed25519Signature(raw_public_key(pkey), m) : m \in Messages}
        \cup {sign_oneshot_to_vec(generate_ed25519(seed).val, data).val : seed \in Seeds}
        \cup {FlipByte(right, i) : i \in 1..SigLen}
        \cup {SubSeq(right, 1, SigLen - 1), Append(right, 0), << >>}

\* a DeviceID that is no address of a generated key
SampleId == [i \in 1..LENGTH |-> (171 + 34 * (i - 1)) % 256]

\* the raw key the malformed inputs are derived from
SampleKey == SeedKey(1)

\* byte strings given as raw public keys: the generated public keys, a private
\* key taken for one, and byte strings one byte short, one byte long and empty
KeyBytes ==
    {PublicOf(SeedKey(seed)) : seed \in Seeds}
    \cup {SampleKey, << >>, SubSeq(SampleKey, 1, KeyLen - 1), Append(SampleKey, 9)}

\* `id` fields: the canonical hex of SampleId and of `held`, SampleId in upper
\* case, and malformed variants
IdTexts(held) ==
    LET canon == hex_encode(SampleId)
    IN  {hex_encode(d) : d \in {SampleId} \cup held}
        \cup {Upper(canon),
              SubSeq(canon, 1, Len(canon) - 1),
              SubSeq(canon, 1, Len(canon) - 2),
              canon \o <<48, 48>>,
              [canon EXCEPT ![1] = 103],
              << >>}

\* `sign` fields for raw key bytes k: its base64, and malformed variants of it
SignTexts(k) ==
    LET canon == STANDARD_encode(k)
        n == Len(canon)
    IN  {canon,
         SubSeq(canon, 1, n - 1),
         canon \o <<B64Pad>>,
         [canon EXCEPT ![1] = 42],
         IF n >= 2 /\ canon[n] = B64Pad
            THEN [canon EXCEPT ![n - 1] = B64Char(B64Val(canon[n - 1]) + 1)]
            ELSE [canon EXCEPT ![n] = B64Pad],
         STANDARD_encode(SubSeq(k, 1, Len(k) - 1)),
         STANDARD_encode(Append(k, 9)),
         << >>}

\* ---------------------------------------------------------------- actions
Init ==
    /\ provider \in Providers
    /\ ident = NoValue
    /\ pub = NoValue
    /\ last = [op |-> "none"]

\* let identity = Identity::generate()
Generate ==
    \E seed \in Seeds :
        \E r \in {Identity_generate(seed)} :
            /\ last' = [op |-> "Identity::generate", result |-> r]
            /\ ident' = IF IsOk(r) THEN r.val ELSE ident
            /\ UNCHANGED << provider, pub >>

\* identity.sign(data)
Sign ==
    /\ ident # NoValue
    /\ \E data \in Messages :
           last' = [op |-> "Identity::sign", data |-> data,
                    result |-> Identity_sign(ident, data)]
    /\ UNCHANGED << provider, ident, pub >>

\* identity.verify(data, signature)
Verify ==
    /\ ident # NoValue
    /\ \E data \in Messages :
       \E signature \in Signatures(ident.pkey, data) :
           last' = [op |-> "Identity::verify", data |-> data, signature |-> signature,
                    result |-> Identity_verify(ident, data, signature)]
    /\ UNCHANGED << provider, ident, pub >>

\* let public = identity.public_identity()
PublicIdentityOf ==
    /\ ident # NoValue
    /\ \E r \in {Identity_public_identity(ident)} :
           /\ last' = [op |-> "Identity::public_identity", result |-> r]
           /\ pub' = IF IsOk(r) THEN r.val ELSE pub
    /\ UNCHANGED << provider, ident >>

\* let public = PublicIdentity::new(sign)
PublicNew ==
    \E sign \in KeyBytes \cup (IF pub = NoValue THEN {} ELSE {PublicIdentity_public_key(pub)}) :
        \E r \in {PublicIdentity_new(sign)} :
            /\ last' = [op |-> "PublicIdentity::new", sign |-> sign, result |-> r]
            /\ pub' = IF IsOk(r) THEN r.val ELSE pub
            /\ UNCHANGED << provider, ident >>

\* public.verify(data, signature)
PublicVerify ==
    /\ pub # NoValue
    /\ \E data \in Messages :
       \E signature \in Signatures(pub.pkey, data) :
           last' = [op |-> "PublicIdentity::verify", data |-> data,
                    signature |-> signature,
                    result |-> PublicIdentity_verify(pub, data, signature)]
    /\ UNCHANGED << provider, ident, pub >>

\* compute_address(public_key), on its own
ComputeAddress ==
    /\ \E public_key \in KeyBytes :
           last' = [op |-> "compute_address", public_key |-> public_key,
                    result |-> compute_address(public_key)]
    /\ UNCHANGED << provider, ident, pub >>

\* serde: identity.serialize(..)
SerializeIdentity ==
    /\ ident # NoValue
    /\ last' = [op |-> "Identity::serialize", result |-> Ok(Identity_serialize(ident))]
    /\ UNCHANGED << provider, ident, pub >>

\* serde: public.serialize(..)
SerializePublic ==
    /\ pub # NoValue
    /\ last' = [op |-> "PublicIdentity::serialize",
                result |-> Ok(PublicIdentity_serialize(pub))]
    /\ UNCHANGED << provider, ident, pub >>

\* serde: let identity = Identity::deserialize(..) of a record {id, sign}
DeserializeIdentity ==
    \E id \in IdTexts(IF ident = NoValue THEN {} ELSE {ident.id}) :
    \E sign \in SignTexts(SampleKey)
                \cup (IF ident = NoValue THEN {} ELSE {Identity_serialize(ident).sign}) :
        \E r \in {Identity_deserialize([id |-> id, sign |-> sign])} :
            /\ last' = [op |-> "Identity::deserialize",
                        plain |-> [id |-> id, sign |-> sign], result |-> r]
            /\ ident' = IF IsOk(r) THEN r.val ELSE ident
            /\ UNCHANGED << provider, pub >>

\* serde: let public = PublicIdentity::deserialize(..) of a record {id, sign}
DeserializePublic ==
    \E id \in IdTexts(IF pub = NoValue THEN {} ELSE {pub.id}) :
    \E sign \in SignTexts(PublicOf(SampleKey))
                \cup (IF pub = NoValue THEN {} ELSE {PublicIdentity_serialize(pub).sign}) :
        \E r \in {PublicIdentity_deserialize([id |-> id, sign |-> sign])} :
            /\ last' = [op |-> "PublicIdentity::deserialize",
                        plain |-> [id |-> id, sign |-> sign], result |-> r]
            /\ pub' = IF IsOk(r) THEN r.val ELSE pub
            /\ UNCHANGED << provider, ident >>

\* ser.rs test_serialize: generate, to_string, from_str, assert_eq
test_serialize ==
    \E seed \in Seeds :
        \E identity \in {Identity_generate(seed)} :
            /\ IsOk(identity)
            /\ \E json \in {Identity_serialize(identity.val)} :
               \E identity2 \in {Identity_deserialize(json)} :
                   last' = [op |-> "test_serialize", identity |-> identity.val,
                            json |-> json, identity2 |-> identity2,
                            result |-> IF IsOk(identity2)
                                          /\ Identity_eq(identity.val, identity2.val)
                                       THEN Ok(TRUE)
                                       ELSE Panic("assertion failed")]
            /\ UNCHANGED << provider, ident, pub >>

\* generation, derivation, signing and verification
Next ==
    \/ Generate
    \/ Sign
    \/ Verify
    \/ PublicIdentityOf
    \/ PublicNew
    \/ PublicVerify
    \/ ComputeAddress

Spec == Init /\ [][Next]_vars

\* generation and the record codec
SerNext ==
    \/ Generate
    \/ PublicIdentityOf
    \/ SerializeIdentity
    \/ SerializePublic
    \/ DeserializeIdentity
    \/ DeserializePublic
    \/ test_serialize

SpecSer == Init /\ [][SerNext]_vars

\* ----------------------------------------------------------------- claims
\* the signature identity `self` makes over `data`, when signing succeeds
SignedBy(self, data, signature) == Identity_sign(self, data) = Ok(signature)

\* pub is what ident.public_identity() returns
PubIsOfIdent == ident # NoValue /\ pub # NoValue /\ Identity_public_identity(ident) = Ok(pub)

\* some generated Identity other than ident made `signature` over `data`
SignedByAnother(data, signature) ==
    \E seed \in Seeds :
        LET J == Identity_generate(seed)
        IN  IsOk(J) /\ ~Identity_eq(J.val, ident) /\ SignedBy(J.val, data, signature)

\* `signature` is the signature of ident over `data` with one byte flipped
FlippedFrom(self, data, signature) ==
    LET right == Identity_sign(self, data)
    IN  IsOk(right) /\ \E i \in 1..Len(right.val) : signature = FlipByte(right.val, i)

\* C1: for every generated Identity I and every message M, I.sign(M) succeeds
\* and I.verify(M, I.sign(M)) returns Ok(true).
C1_SignThenVerify ==
    /\ last.op = "Identity::sign" =>
           /\ IsOk(last.result)
           /\ Identity_verify(ident, last.data, last.result.val) = Ok(TRUE)
    /\ last.op = "Identity::verify" /\ SignedBy(ident, last.data, last.signature) =>
           last.result = Ok(TRUE)

C1_Witness ==
    /\ last.op = "Identity::verify"
    /\ SignedBy(ident, last.data, last.signature)
    /\ last.result = Ok(TRUE)

\* C2: P = I.public_identity() answers Ok(true) to I's signature over the same
\* message, and Ok(false), never an error, to I's signature over another
\* message and to another generated identity's signature over the message.
C2_PublicVerify ==
    last.op = "PublicIdentity::verify" /\ PubIsOfIdent =>
        /\ SignedBy(ident, last.data, last.signature) => last.result = Ok(TRUE)
        /\ (\E m \in Messages : m # last.data /\ SignedBy(ident, m, last.signature)) =>
               last.result = Ok(FALSE)
        /\ SignedByAnother(last.data, last.signature) => last.result = Ok(FALSE)

C2_Witness ==
    /\ last.op = "PublicIdentity::verify"
    /\ PubIsOfIdent
    /\ SignedByAnother(last.data, last.signature)
    /\ last.result = Ok(FALSE)

\* C3: after any sequence of generate, public_identity and PublicIdentity::new,
\* the id of every Identity and PublicIdentity is compute_address of its public
\* key, and I.public_identity().id() = PublicIdentity::new(its public_key()).id()
\* = I.id().
C3_IdIsAddressOfKey ==
    /\ ident # NoValue =>
           Ok(Identity_id(ident)) = compute_address(raw_public_key(ident.pkey))
    /\ pub # NoValue =>
           Ok(PublicIdentity_id(pub)) = compute_address(PublicIdentity_public_key(pub))
    /\ last.op = "Identity::public_identity" =>
           /\ IsOk(last.result)
           /\ PublicIdentity_id(last.result.val) = Identity_id(ident)
           /\ LET again == PublicIdentity_new(PublicIdentity_public_key(last.result.val))
              IN  IsOk(again) /\ PublicIdentity_id(again.val) = Identity_id(ident)

C3_Witness ==
    /\ last.op = "PublicIdentity::new"
    /\ IsOk(last.result)
    /\ ident # NoValue
    /\ last.sign = raw_public_key(ident.pkey)
    /\ PublicIdentity_id(pub) = Identity_id(ident)

\* C7: with the hash algorithm unavailable in the provider, compute_address,
\* Identity::generate and PublicIdentity::new return an error value instead of
\* panicking.
C7_UnavailableHashIsAnError ==
    /\ last.op \in {"compute_address", "Identity::generate", "PublicIdentity::new"}
    /\ provider.digest # "available"
    => IsErr(last.result)

RECURSIVE DigestTimes(_, _)
\* the digest function applied n times to data (each digest is DigestLen bytes
\* long: the test has it evaluated before the next is taken)
DigestTimes(data, n) ==
    IF n = 0 THEN data
    ELSE LET d == Digest(data)
         IN  IF Len(d) = DigestLen THEN DigestTimes(d, n - 1) ELSE << >>

\* C8: for public-key bytes of any length, the empty one too, compute_address
\* returns the first LENGTH bytes of the hash applied 32 times, exactly LENGTH
\* bytes long.
C8_AddressIs32Hashes ==
    last.op = "compute_address" =>
        /\ provider.digest = "available" => IsOk(last.result)
        /\ IsOk(last.result) =>
               /\ Len(last.result.val) = LENGTH
               /\ last.result.val = SubSeq(DigestTimes(last.public_key, 32), 1, LENGTH)

C8_Witness ==
    /\ last.op = "compute_address"
    /\ last.public_key = << >>
    /\ IsOk(last.result)

\* C10: I.verify(M, S) and I.public_identity().verify(M, S) give the same
\* outcome for every M and S, and a signature with one byte flipped gives
\* Ok(false).
C10_VerifyConsistent ==
    /\ last.op = "PublicIdentity::verify" /\ PubIsOfIdent =>
           /\ last.result = Identity_verify(ident, last.data, last.signature)
           /\ FlippedFrom(ident, last.data, last.signature) => last.result = Ok(FALSE)
    /\ last.op = "Identity::verify" =>
           /\ LET P == Identity_public_identity(ident)
              IN  /\ IsOk(P)
                  /\ last.result = PublicIdentity_verify(P.val, last.data, last.signature)
           /\ FlippedFrom(ident, last.data, last.signature) => last.result = Ok(FALSE)

C10_Witness ==
    /\ last.op = "PublicIdentity::verify"
    /\ PubIsOfIdent
    /\ Len(last.signature) # SigLen
    /\ last.result = Identity_verify(ident, last.data, last.signature)

\* the ids of the values at hand, and SampleId
IdsAtHand ==
    {SampleId} \cup (IF ident = NoValue THEN {} ELSE {Identity_id(ident)})
               \cup (IF pub = NoValue THEN {} ELSE {PublicIdentity_id(pub)})

Deserializations == {"Identity::deserialize", "PublicIdentity::deserialize"}

\* the record the value of a successful deserialization serializes to
Reserialized ==
    IF last.op = "Identity::deserialize" THEN Identity_serialize(last.result.val)
    ELSE PublicIdentity_serialize(last.result.val)

\* C4: deserializing the serialized form of an Identity or a PublicIdentity
\* succeeds and gives a value equal to it (same id, same raw key bytes), and
\* parsing the hex text of a DeviceID gives that DeviceID.
C4_DecodeOfEncode ==
    /\ ident # NoValue =>
           LET back == Identity_deserialize(Identity_serialize(ident))
           IN  IsOk(back) /\ Identity_eq(back.val, ident)
    /\ pub # NoValue =>
           LET back == PublicIdentity_deserialize(PublicIdentity_serialize(pub))
           IN  IsOk(back) /\ PublicIdentity_eq(back.val, pub)
    /\ \A d \in IdsAtHand :
           /\ DeviceID_from_str(DeviceID_to_string(d)) = Ok(d)
           /\ DeviceID_deserialize(DeviceID_serialize(d)) = Ok(d)
    /\ last.op = "test_serialize" => last.result = Ok(TRUE)

C4_Witness ==
    /\ last.op = "test_serialize"
    /\ IsOk(last.identity2)
    /\ Identity_eq(last.identity, last.identity2.val)

\* C5 as stated: every record a deserialization accepts, one with its `id` in
\* upper-case hex too, is serialized back with `id` and `sign` byte for byte
\* the same.
C5_EncodeOfDecode_AnyCase ==
    last.op \in Deserializations /\ IsOk(last.result) => Reserialized = last.plain

\* no upper-case letter in the text
IsLowerCase(text) == \A i \in 1..Len(text) : ~(text[i] >= 65 /\ text[i] <= 90)

\* C5 amended: every record a deserialization accepts whose `id` is written
\* in lower-case hex is serialized back with `id` and `sign` byte for byte the
\* same.
C5_EncodeOfDecode_LowerCase ==
    last.op \in Deserializations /\ IsOk(last.result) /\ IsLowerCase(last.plain.id) =>
        Reserialized = last.plain

C5_Witness ==
    /\ last.op \in Deserializations
    /\ IsOk(last.result)
    /\ IsLowerCase(last.plain.id)
    /\ last.plain.id = hex_encode(SampleId)
    /\ Reserialized = last.plain

\* 2 * LENGTH hex digits of either case
WellFormedIdText(text) ==
    /\ Len(text) = 2 * LENGTH
    /\ \A i \in 1..Len(text) :
           \/ text[i] \in 48..57
           \/ text[i] \in 97..102
           \/ text[i] \in 65..70

\* the failure of the `id` field, of the base64 of `sign`, of the key import
IsIdFailure(r) ==
    /\ IsErr(r)
    /\ \/ r.err = [kind |-> "invalid_value", what |-> "device id"]
       \/ r.err.kind = "custom"
          /\ r.err.what \in {"OddLength", "InvalidStringLength", "InvalidHexCharacter"}
IsBase64Failure(r) ==
    IsErr(r) /\ r.err = [kind |-> "invalid_value", what |-> "base64 encoded"]
IsKeyFailure(r) == IsErr(r) /\ r.err = [kind |-> "custom", what |-> "Openssl"]

\* C6: deserializing malformed text never panics and never yields a value: a
\* malformed `id` fails as the id, else a `sign` that is no valid base64 fails
\* as base64, else bytes that are no valid key fail in the provider's import;
\* in that order.
C6_MalformedTextFails ==
    last.op \in Deserializations =>
        LET id_ok == WellFormedIdText(last.plain.id)
            bytes == STANDARD_decode(last.plain.sign)
        IN  /\ ~IsPanic(last.result)
            /\ ~id_ok => IsIdFailure(last.result)
            /\ id_ok /\ IsErr(bytes) => IsBase64Failure(last.result)
            /\ id_ok /\ IsOk(bytes) /\ Len(bytes.val) # KeyLen => IsKeyFailure(last.result)

C6_Witness ==
    /\ last.op \in Deserializations
    /\ ~WellFormedIdText(last.plain.id)
    /\ IsErr(STANDARD_decode(last.plain.sign))
    /\ IsIdFailure(last.result)

\* C9: a record {id: d, sign: base64(k)} with d well formed and k a valid key
\* decodes to a value with id d and raw key bytes k, and new_with_id(d, k)
\* gives such a value, whether or not d is the address of the key: nothing is
\* hashed on the way.
C9_IdIsTrusted ==
    /\ last.op \in Deserializations =>
           LET d == hex_decode_to_slice(last.plain.id, LENGTH)
               k == STANDARD_decode(last.plain.sign)
           IN  IsOk(d) /\ IsOk(k) /\ Len(k.val) = KeyLen =>
                   /\ IsOk(last.result)
                   /\ last.result.val.id = d.val
                   /\ last.result.val.raw_sign = k.val
    /\ \A d \in IdsAtHand, k \in KeyBytes :
           Len(k) = KeyLen =>
               LET made == PublicIdentity_new_with_id(d, k)
               IN  /\ IsOk(made)
                   /\ PublicIdentity_id(made.val) = d
                   /\ PublicIdentity_public_key(made.val) = k

C9_Witness ==
    /\ last.op \in Deserializations
    /\ IsOk(last.result)
    /\ last.result.val.id = SampleId
    /\ compute_address(raw_public_key(last.result.val.pkey)) # Ok(SampleId)
====
